---- MODULE Spec2Model ----
(***************************************************************************)
(* comsync: the task-session coordination between a SyncClient on the main *)
(* thread and the functions wrapped by syncExpose in a worker.             *)
(*                                                                         *)
(* The client runs on a single-threaded event loop.  A step of the model   *)
(* on the client side is one run-to-completion piece of code: a call of    *)
(* the public API up to its first suspension, the handling of one message  *)
(* from the worker together with the promise continuations it makes ready, *)
(* or the continuation of a call whose cancellation promise terminate()    *)
(* rejected (it runs as a microtask: user code that follows terminate() or *)
(* interrupt() synchronously runs before it, messages of the worker are    *)
(* handled after it).  The worker is another thread: its steps interleave  *)
(* freely with the client's, but a task blocked in the channel's           *)
(* readMessage holds the whole worker thread.                              *)
(*                                                                         *)
(* The channel of sync-message is modelled by its contract: a store of     *)
(* payloads keyed by message id; a read takes a payload written for its    *)
(* id.  uuidv4() is modelled by the number of the session: a token no      *)
(* other session has.                                                      *)
(***************************************************************************)
EXTENDS Integers, Sequences, FiniteSets, TLC

\* Bounds of the model.
MaxSessions == 3        \* calls accepted by the client
MaxCalls == 2           \* readMessage and syncSleep calls of all tasks together
MaxMessage == 2         \* writeMessage calls accepted; the i-th carries message i
MaxInterrupter == 1     \* interrupt() calls waiting for the interrupter at a time
MaxMs == 1              \* syncSleep(ms) is called with ms in -MaxMs..MaxMs

Sessions == 1..MaxSessions

\* testRead multiplies the message it reads by 3.
Multiplier == 3

VARIABLES
  state,                    \* SyncClient.state
  channel,                  \* SyncClient.channel is a Channel (FALSE: null)
  worker,                   \* SyncClient.worker / workerProxy: id of the worker, 0 when deleted
  workersCreated,           \* number of calls of workerCreator
  _interruptRejector,       \* session whose _interruptPromise it rejects, 0 when deleted
  _messageIdBase,           \* session whose uuid it holds, 0 when "" or deleted
  _messageIdSeq,
  _awaitingMessageResolve,  \* the queued writeMessage it resumes, or NoWriter
  nSessions,                \* calls accepted so far; session s uses the s-th uuid
  runningThisTask,          \* per session: the closure variable of call
  race,                     \* per session: Promise.race of the call
  settled,                  \* the call that settled last: its session and result
  notif,                    \* per session: status notifications in flight to the client
  result,                   \* per session: the proxied method's result in flight to the client
  tpc,                      \* per session: where the exposed function is on the worker
  tchannel,                 \* per session: the channel argument the worker received
  messageIdSeq,             \* per session: the worker's messageIdSeq
  tlog,                     \* per session: what the user function has read and caught
  nCalls,                   \* readMessage and syncSleep calls made so far, by all tasks
  chan,                     \* payloads stored in the channel, by message id
  written,                  \* history: every [id, payload] ever written to the channel
  nMessages,                \* writeMessage calls accepted so far
  interrupterPending,       \* interrupter invocations that have not completed
  interruptAwaiting         \* interrupt() calls suspended at "await this.interrupter()"

ctl == <<state, channel, worker, workersCreated, _interruptRejector,
         _messageIdBase, _messageIdSeq, _awaitingMessageResolve>>
sess == <<nSessions, runningThisTask, race, settled, notif, result>>
wrk == <<tpc, tchannel, messageIdSeq, tlog, nCalls>>
chn == <<chan, written, nMessages>>
intr == <<interrupterPending, interruptAwaiting>>
vars == <<ctl, sess, wrk, chn, intr>>

----------------------------------------------------------------------------
\* Values

NoWriter == [queued |-> FALSE, message |-> 0]
Writer(message) == [queued |-> TRUE, message |-> message]

NoResult == [type |-> "none", value |-> <<>>]
InterruptError == [type |-> "InterruptError", value |-> <<>>]
NoChannelError == [type |-> "NoChannelError", value |-> <<>>]

\* What a user function saw: a message it read, or an error it caught.
Read(message) == [type |-> "message", value |-> message]
Caught(error) == [type |-> error.type, value |-> 0]

\* The value a user function returns: for every message read its triple (testRead),
\* for every error caught its type (testReadInterrupt: e.type + " " + readMessage()).
TaskValue(log) ==
  [type |-> "return",
   value |-> [i \in DOMAIN log |->
                IF log[i].type = "message"
                  THEN [type |-> "message", value |-> Multiplier * log[i].value]
                  ELSE log[i]]]

MessagePayload(message) == [interrupted |-> FALSE, message |-> message]
InterruptedPayload == [interrupted |-> TRUE, message |-> 0]

makeMessageId(base, seq) == <<base, seq>>

----------------------------------------------------------------------------
\* Worker-side facts

Blocked(s) == tpc[s] \in {"reading", "sleeping"}
Live(s) == tpc[s] # "none"

\* A blocking channel read holds the worker thread: nothing else runs on it.
ThreadFree == \A t \in Sessions : ~Blocked(t)

\* The continuation of a call rejected by terminate() runs before the next message
\* from the worker is handled.
MicrotaskPending == \E s \in Sessions : race[s] = "rejected"

----------------------------------------------------------------------------
\* SyncClient

Init ==
  /\ state = "idle"
  /\ channel \in BOOLEAN
  /\ worker = 1
  /\ workersCreated = 1
  /\ _interruptRejector = 0
  /\ _messageIdBase = 0
  /\ _messageIdSeq = 0
  /\ _awaitingMessageResolve = NoWriter
  /\ nSessions = 0
  /\ runningThisTask = [s \in Sessions |-> FALSE]
  /\ race = [s \in Sessions |-> "none"]
  /\ settled = [s |-> 0, type |-> "none", value |-> <<>>]
  /\ notif = [s \in Sessions |-> <<>>]
  /\ result = [s \in Sessions |-> NoResult]
  /\ tpc = [s \in Sessions |-> "none"]
  /\ tchannel = [s \in Sessions |-> FALSE]
  /\ messageIdSeq = [s \in Sessions |-> 0]
  /\ tlog = [s \in Sessions |-> <<>>]
  /\ nCalls = 0
  /\ chan = {}
  /\ written = {}
  /\ nMessages = 0
  /\ interrupterPending = 0
  /\ interruptAwaiting = 0

\* uuidv4(): a token no earlier session had.
uuidv4 == nSessions + 1

\* Faulty variant of _reset: the correlation base survives the end of the call.
_resetKeepsBase ==
  /\ state' = "idle"
  /\ _interruptRejector' = 0
  /\ _awaitingMessageResolve' = NoWriter
  /\ _messageIdBase' = _messageIdBase

\* Faulty variant of _reset: a queued writer survives the end of the call.
_resetKeepsWriter ==
  /\ state' = "idle"
  /\ _interruptRejector' = 0
  /\ _awaitingMessageResolve' = _awaitingMessageResolve
  /\ _messageIdBase' = 0

\* _reset(): the resolve function of a queued writeMessage is deleted without being
\* called, so the promise of that writeMessage stays pending for good.
_reset ==
  /\ state' = "idle"
  /\ _interruptRejector' = 0
  /\ _awaitingMessageResolve' = NoWriter
  /\ _messageIdBase' = 0

_start ==
  /\ _reset
  /\ worker' = workersCreated + 1
  /\ workersCreated' = workersCreated + 1

\* writeMessage(this.channel, message, messageId) of sync-message.
channelWrite(message, messageId) ==
  /\ chan' = chan \cup {[id |-> messageId, payload |-> message]}
  /\ written' = written \cup {[id |-> messageId, payload |-> message]}

\* `seq` is this._messageIdSeq at the time of the call.
_writeMessage(message, seq) ==
  /\ state' = "running"
  /\ channelWrite(message, makeMessageId(_messageIdBase, seq))

\* The body of terminate() up to the deletion of worker and workerProxy, which its
\* callers model: this._interruptRejector?.(...) rejects the cancellation promise of
\* the session it belongs to (a result on its way to a rejected race has no effect
\* any more); releasing the undefined workerProxy of a client already terminated
\* throws a TypeError; otherwise the worker thread is stopped with all it runs.
terminate ==
  /\ race' = [s \in Sessions |->
                IF s = _interruptRejector /\ race[s] = "pending" THEN "rejected" ELSE race[s]]
  /\ IF worker # 0
       THEN /\ tpc' = [s \in Sessions |-> "none"]
            /\ tchannel' = [s \in Sessions |-> FALSE]
            /\ messageIdSeq' = [s \in Sessions |-> 0]
            /\ tlog' = [s \in Sessions |-> <<>>]
       ELSE UNCHANGED <<tpc, tchannel, messageIdSeq, tlog>>

\* Faulty variant of interruptTier: the interrupter is preferred to the channel.
interruptTierInterrupterFirst(st, hasInterrupter) ==
  IF st = "idle" THEN 0
  ELSE IF hasInterrupter THEN 2
  ELSE IF st \in {"awaitingMessage", "sleeping"} THEN 1
  ELSE 3

\* Faulty variant of interruptTier: no early return on an idle client.
interruptTierNoIdleReturn(st, hasInterrupter) ==
  IF st \in {"awaitingMessage", "sleeping"} THEN 1
  ELSE IF hasInterrupter THEN 2
  ELSE 3

\* The strategy interrupt() chooses: 0 is the return on an idle client.
interruptTier(st, hasInterrupter) ==
  IF st = "idle" THEN 0
  ELSE IF st \in {"awaitingMessage", "sleeping"} THEN 1
  ELSE IF hasInterrupter THEN 2
  ELSE 3

\* Faulty variant of awaitInterrupter: the interrupter is called and not awaited.
callInterrupter ==
  /\ interrupterPending' = interrupterPending + 1
  /\ interruptAwaiting' = interruptAwaiting

\* "await this.interrupter()": the interrupter is called, interrupt() waits for it.
awaitInterrupter ==
  /\ interrupterPending' = interrupterPending + 1
  /\ interruptAwaiting' = interruptAwaiting + 1

\* interrupt(), up to its first await.  The public field this.interrupter, which the
\* user assigns and deletes at any time, is an input of the call: hasInterrupter.
interrupt(hasInterrupter) ==
  LET tier == interruptTier(state, hasInterrupter) IN
  \/ /\ tier = 0
     /\ UNCHANGED vars
  \/ /\ tier = 1
     /\ _writeMessage(InterruptedPayload, _messageIdSeq)
     /\ UNCHANGED <<channel, worker, workersCreated, _interruptRejector, _messageIdBase,
                    _messageIdSeq, _awaitingMessageResolve, nMessages, sess, wrk, intr>>
  \/ /\ tier = 2
     /\ interruptAwaiting < MaxInterrupter
     /\ awaitInterrupter
     /\ UNCHANGED <<ctl, sess, wrk, chn>>
  \/ /\ tier = 3
     /\ worker # 0
     /\ terminate
     /\ _start
     /\ UNCHANGED <<channel, _messageIdSeq, nSessions, runningThisTask, settled, notif,
                    result, nCalls, chn, intr>>
  \/ /\ tier = 3
     /\ worker = 0
     /\ terminate
     /\ UNCHANGED <<ctl, nSessions, runningThisTask, settled, notif, result, nCalls,
                    chn, intr>>

\* The interrupter is the user's: it completes when it likes.
interrupterReturns ==
  /\ interrupterPending > 0
  /\ interrupterPending' = interrupterPending - 1
  /\ UNCHANGED <<ctl, sess, wrk, chn, interruptAwaiting>>

\* interrupt() resumes after "await this.interrupter()" and returns.
interruptResumes ==
  /\ interruptAwaiting > interrupterPending
  /\ interruptAwaiting' = interruptAwaiting - 1
  /\ UNCHANGED <<ctl, sess, wrk, chn, interrupterPending>>

\* Faulty variant of notIdle: call does not look at the state.
notIdleCheck == FALSE

\* "if (this.state !== 'idle')" of call.
notIdle == state # "idle"

\* call(proxyMethod, ...args) up to "await Promise.race": the proxied method can only
\* be taken from a workerProxy that exists.
call ==
  /\ worker # 0
  /\ \/ /\ notIdle
        /\ UNCHANGED vars
     \/ /\ ~notIdle
        /\ nSessions < MaxSessions
        /\ LET s == uuidv4 IN
           /\ nSessions' = s
           /\ runningThisTask' = [runningThisTask EXCEPT ![s] = TRUE]
           /\ state' = "running"
           /\ _messageIdBase' = s
           /\ _messageIdSeq' = 0
           /\ _interruptRejector' = s
           /\ race' = [race EXCEPT ![s] = "pending"]
           /\ tpc' = [tpc EXCEPT ![s] = "posted"]
           /\ tchannel' = [tchannel EXCEPT ![s] = channel]
        /\ UNCHANGED <<channel, worker, workersCreated, _awaitingMessageResolve, settled,
                       notif, result, messageIdSeq, tlog, nCalls, chn, intr>>

\* The end of call for session s: the finally block, then the promise settles.
callFinally(s, res) ==
  /\ race' = [race EXCEPT ![s] = "settled"]
  /\ runningThisTask' = [runningThisTask EXCEPT ![s] = FALSE]
  /\ _reset
  /\ settled' = [s |-> s, type |-> res.type, value |-> res.value]

\* The continuation of a call whose cancellation promise terminate() rejected.
callRejected(s) ==
  /\ race[s] = "rejected"
  /\ callFinally(s, InterruptError)
  /\ result' = [result EXCEPT ![s] = NoResult]
  /\ UNCHANGED <<channel, worker, workersCreated, _messageIdSeq, nSessions, notif,
                 wrk, chn, intr>>

\* The proxied method's result arrives and settles the race, which is still open.
callResult(s) ==
  /\ ~MicrotaskPending
  /\ result[s] # NoResult
  /\ race[s] = "pending"
  /\ result' = [result EXCEPT ![s] = NoResult]
  /\ callFinally(s, result[s])
  /\ UNCHANGED <<channel, worker, workersCreated, _messageIdSeq, nSessions, notif,
                 wrk, chn, intr>>

\* The message of the next writeMessage call that is accepted.
nextMessage == nMessages + 1

\* Faulty variant of noActiveCall: writeMessage does not ask for an active call.
noActiveCallCheck == FALSE

\* "if (this.state === 'idle' || !this._messageIdBase)" of writeMessage.
noActiveCall == state = "idle" \/ _messageIdBase = 0

\* Faulty variant of alreadyQueued: a second writeMessage replaces the queued one.
alreadyQueuedCheck == FALSE

\* "if (this._awaitingMessageResolve)" of writeMessage.
alreadyQueued == _awaitingMessageResolve.queued

writeMessage(message) ==
  \/ /\ noActiveCall
     /\ UNCHANGED vars
  \/ /\ ~noActiveCall
     /\ state # "awaitingMessage"
     /\ alreadyQueued
     /\ UNCHANGED vars
  \/ /\ ~noActiveCall
     /\ state # "awaitingMessage"
     /\ ~alreadyQueued
     /\ nMessages < MaxMessage
     /\ nMessages' = nMessages + 1
     /\ _awaitingMessageResolve' = Writer(message)
     /\ UNCHANGED <<state, channel, worker, workersCreated, _interruptRejector,
                    _messageIdBase, _messageIdSeq, sess, wrk, chan, written, intr>>
  \/ /\ ~noActiveCall
     /\ state = "awaitingMessage"
     /\ nMessages < MaxMessage
     /\ nMessages' = nMessages + 1
     /\ _writeMessage(MessagePayload(message), _messageIdSeq)
     /\ UNCHANGED <<channel, worker, workersCreated, _interruptRejector, _messageIdBase,
                    _messageIdSeq, _awaitingMessageResolve, sess, wrk, intr>>

\* The user calls terminate().
userTerminate ==
  /\ terminate
  /\ worker' = 0
  /\ UNCHANGED <<state, channel, workersCreated, _interruptRejector, _messageIdBase,
                 _messageIdSeq, _awaitingMessageResolve, nSessions, runningThisTask,
                 settled, notif, result, nCalls, chn, intr>>

\* Faulty variant of statusState: "slept" is not handled, the state stays sleeping.
statusStateWithoutSlept(status) ==
  IF status = "reading" THEN "awaitingMessage" ELSE "sleeping"

\* The state the callback sets for a status it does not ignore.
statusState(status) ==
  IF status = "reading" THEN "awaitingMessage"
  ELSE IF status = "sleeping" THEN "sleeping"
  ELSE "running"

\* Faulty variant of ignores: the callback of a call that has ended still acts.
ignoresInitOnly(s, status) == status = "init"

\* "if (!runningThisTask || status === 'init') return;"
ignores(s, status) == ~runningThisTask[s] \/ status = "init"

\* The callback of session s handles the oldest notification the worker sent it.  A
\* queued writeMessage that "reading" resumes continues before anything else runs.
syncMessageCallback(s) ==
  /\ ~MicrotaskPending
  /\ notif[s] # <<>>
  /\ notif' = [notif EXCEPT ![s] = Tail(@)]
  /\ LET status == Head(notif[s]) IN
     /\ tpc' = [tpc EXCEPT ![s] = IF status = "init" /\ @ = "init" THEN "run" ELSE @]
     /\ IF ignores(s, status)
          THEN UNCHANGED <<state, _messageIdSeq, _awaitingMessageResolve, chan, written>>
        ELSE IF status = "reading"
          THEN /\ _messageIdSeq' = _messageIdSeq + 1
               /\ IF _awaitingMessageResolve.queued
                    THEN /\ _awaitingMessageResolve' = NoWriter
                         /\ _writeMessage(MessagePayload(_awaitingMessageResolve.message),
                                          _messageIdSeq + 1)
                    ELSE /\ state' = statusState(status)
                         /\ UNCHANGED <<_awaitingMessageResolve, chan, written>>
        ELSE IF status = "sleeping"
          THEN /\ state' = statusState(status)
               /\ _messageIdSeq' = _messageIdSeq + 1
               /\ UNCHANGED <<_awaitingMessageResolve, chan, written>>
        ELSE /\ state' = statusState(status)
             /\ UNCHANGED <<_messageIdSeq, _awaitingMessageResolve, chan, written>>
  /\ UNCHANGED <<channel, worker, workersCreated, _interruptRejector, _messageIdBase,
                 nSessions, runningThisTask, race, settled, result, tchannel, messageIdSeq,
                 tlog, nCalls, nMessages, intr>>

----------------------------------------------------------------------------
\* syncExpose: the worker side of session s

\* The exposed function starts: "await syncMessageCallback('init')".
syncExpose(s) ==
  /\ tpc[s] = "posted"
  /\ ThreadFree
  /\ tpc' = [tpc EXCEPT ![s] = "init"]
  /\ messageIdSeq' = [messageIdSeq EXCEPT ![s] = 0]
  /\ notif' = [notif EXCEPT ![s] = Append(@, "init")]
  /\ UNCHANGED <<ctl, nSessions, runningThisTask, race, settled, result, tchannel, tlog,
                 nCalls, chn, intr>>

\* The exposed function of session s ends: its arguments and locals are gone.
return(s) ==
  /\ tpc' = [tpc EXCEPT ![s] = "none"]
  /\ tchannel' = [tchannel EXCEPT ![s] = FALSE]
  /\ messageIdSeq' = [messageIdSeq EXCEPT ![s] = 0]
  /\ tlog' = [tlog EXCEPT ![s] = <<>>]

\* An error thrown into the user function: it catches it and goes on, or the error
\* ends the exposed function and travels back as the proxied method's rejection.
throw(s, error, catches) ==
  IF catches
    THEN /\ tlog' = [tlog EXCEPT ![s] = Append(@, Caught(error))]
         /\ tpc' = [tpc EXCEPT ![s] = "run"]
         /\ UNCHANGED <<result, tchannel, messageIdSeq>>
    ELSE /\ result' = [result EXCEPT ![s] = error]
         /\ return(s)

\* Faulty variant of preIncrement: the sequence number is used and not advanced.
noIncrement(seq) == seq

\* "++messageIdSeq".
preIncrement(seq) == seq + 1

\* Faulty variant of noChannel: the channel is not looked at.
noChannelCheck(s) == FALSE

\* "if (!channel)": the exposed function of session s was given no channel.
noChannel(s) == ~tchannel[s]

\* fullSyncMessageCallback(status) up to the blocking read of the channel: status is
\* "reading" (readMessage) or "sleeping" (syncSleep with a positive duration).
fullSyncMessageCallback(s, status, catches) ==
  /\ tpc[s] = "run"
  /\ ThreadFree
  /\ nCalls < MaxCalls
  /\ nCalls' = nCalls + 1
  /\ IF noChannel(s)
       THEN /\ throw(s, NoChannelError, catches)
            /\ UNCHANGED notif
       ELSE /\ notif' = [notif EXCEPT ![s] = Append(@, status)]
            /\ messageIdSeq' = [messageIdSeq EXCEPT ![s] = preIncrement(@)]
            /\ tpc' = [tpc EXCEPT ![s] = status]
            /\ UNCHANGED <<tlog, result, tchannel>>
  /\ UNCHANGED <<ctl, nSessions, runningThisTask, race, settled, chn, intr>>

\* extras.readMessage().
readMessage(s, catches) == fullSyncMessageCallback(s, "reading", catches)

\* The durations a task passes to syncSleep.
Durations == (0 - MaxMs)..MaxMs

\* Faulty variant of nonPositive: the duration is not looked at.
nonPositiveCheck(ms) == FALSE

\* "if (!(ms > 0))".
nonPositive(ms) == ~(ms > 0)

\* extras.syncSleep(ms): returns at once when ms is not positive, and otherwise blocks
\* on the channel as a read with a timeout.
syncSleep(s, ms, catches) ==
  IF nonPositive(ms)
    THEN /\ tpc[s] = "run"
         /\ ThreadFree
         /\ UNCHANGED vars
    ELSE fullSyncMessageCallback(s, "sleeping", catches)

\* The channel's readMessage returns a payload written for the message id.
readMessageResponse(s, catches) ==
  /\ Blocked(s)
  /\ \E p \in chan :
       /\ p.id = makeMessageId(s, messageIdSeq[s])
       /\ chan' = chan \ {p}
       /\ IF p.payload.interrupted
            THEN throw(s, InterruptError, catches)
            ELSE /\ tlog' = [tlog EXCEPT ![s] =
                               IF tpc[s] = "reading" THEN Append(@, Read(p.payload.message)) ELSE @]
                 /\ tpc' = [tpc EXCEPT ![s] = "run"]
                 /\ UNCHANGED <<result, tchannel, messageIdSeq>>
  /\ UNCHANGED <<ctl, nSessions, runningThisTask, race, settled, notif, nCalls, written,
                 nMessages, intr>>

\* The channel's readMessage returns nothing: the timeout of a sleep has passed.
readMessageTimeout(s) ==
  /\ tpc[s] = "sleeping"
  /\ \A p \in chan : p.id # makeMessageId(s, messageIdSeq[s])
  /\ notif' = [notif EXCEPT ![s] = Append(@, "slept")]
  /\ tpc' = [tpc EXCEPT ![s] = "run"]
  /\ UNCHANGED <<ctl, nSessions, runningThisTask, race, settled, result, tchannel,
                 messageIdSeq, tlog, nCalls, chn, intr>>

\* The user function returns.
func(s) ==
  /\ tpc[s] = "run"
  /\ ThreadFree
  /\ result' = [result EXCEPT ![s] = TaskValue(tlog[s])]
  /\ return(s)
  /\ UNCHANGED <<ctl, nSessions, runningThisTask, race, settled, notif, nCalls, chn, intr>>

----------------------------------------------------------------------------

Next ==
  \/ call
  \/ writeMessage(nextMessage)
  \/ \E hasInterrupter \in BOOLEAN : interrupt(hasInterrupter)
  \/ interrupterReturns
  \/ interruptResumes
  \/ userTerminate
  \/ \E s \in Sessions : callRejected(s)
  \/ \E s \in Sessions : callResult(s)
  \/ \E s \in Sessions : syncMessageCallback(s)
  \/ \E s \in Sessions : syncExpose(s)
  \/ \E s \in Sessions, catches \in BOOLEAN : readMessage(s, catches)
  \/ \E s \in Sessions, ms \in Durations, catches \in BOOLEAN : syncSleep(s, ms, catches)
  \/ \E s \in Sessions, catches \in BOOLEAN : readMessageResponse(s, catches)
  \/ \E s \in Sessions : readMessageTimeout(s)
  \/ \E s \in Sessions : func(s)

Spec == Init /\ [][Next]_vars

----------------------------------------------------------------------------
\* Properties

\* The calls that have neither settled nor been cancelled.
InFlight == {s \in Sessions : race[s] = "pending"}

\* The message id the task of session s is blocked on.
BlockedOn(s) == makeMessageId(s, messageIdSeq[s])

\* The message id the client writes to.
WriteId == makeMessageId(_messageIdBase, _messageIdSeq)

\* The payloads a step writes to the channel.
Writes == written' \ written

\* A step of interrupt().
Interrupts == \E hasInterrupter \in BOOLEAN : interrupt(hasInterrupter)

\* The user function of session s has caught an InterruptError.
HasCaught(s) == \E i \in DOMAIN tlog[s] : tlog[s][i].type = "InterruptError"

\* C1: a call made while the client is not idle fails with a usage error and starts
\* no session, so that at most one call is in flight in every reachable state.
C1_OneSessionInFlight == Cardinality(InFlight) <= 1

\* C2: whenever a call settles (the task returned, the task threw, or the
\* cancellation promise was rejected) the client is idle afterwards and the
\* rejector, the correlation base and the queued writer are cleared: the state
\* check of a following call passes.
C2_SettleResets ==
  [][\A s \in Sessions :
       race[s] # "settled" /\ race'[s] = "settled"
         => /\ state' = "idle"
            /\ _interruptRejector' = 0
            /\ _messageIdBase' = 0
            /\ _awaitingMessageResolve' = NoWriter
            /\ settled'.s = s]_vars

\* A call was cancelled and has settled with InterruptError; the client is idle.
C2_Witness ==
  /\ settled.s # 0
  /\ settled.type = "InterruptError"
  /\ race[settled.s] = "settled"
  /\ state = "idle"
  /\ _messageIdBase = 0

\* C3: in a session without interrupts every message the client writes is written
\* for the read its task is blocked in, which no other write answers, and that read
\* returns exactly the message written.
C3_WriteMeetsRead ==
  [][/\ \A w \in Writes :
          /\ ~w.payload.interrupted
          /\ w.id[1] \in InFlight
          /\ \A x \in written' : x.id[1] = w.id[1] => ~x.payload.interrupted
          => /\ tpc[w.id[1]] = "reading"
             /\ w.id = BlockedOn(w.id[1])
             /\ \A p \in chan : p.id # w.id
     /\ \A s \in Sessions : \A p \in chan \ chan' :
          tpc[s] = "reading" /\ p.id = BlockedOn(s) /\ ~p.payload.interrupted
            => tlog'[s] = Append(tlog[s], Read(p.payload.message))]_vars

\* C4: an interrupt() called in state awaitingMessage, with no cancelled call waiting
\* for its cleanup, puts the interrupted payload where a task is blocked in
\* readMessage; the read that takes it throws InterruptError, which the user function
\* catches or which becomes the result of the call.
C4_InterruptReachesRead ==
  [][/\ state = "awaitingMessage" /\ ~MicrotaskPending /\ Interrupts
          => \E s \in Sessions :
               /\ tpc[s] = "reading"
               /\ [id |-> BlockedOn(s), payload |-> InterruptedPayload] \in chan'
     /\ \A s \in Sessions :
          (\E p \in chan \ chan' : p.id = BlockedOn(s) /\ p.payload.interrupted)
            => \/ tlog'[s] = Append(tlog[s], Caught(InterruptError)) /\ tpc'[s] = "run"
               \/ result'[s] = InterruptError /\ tpc'[s] = "none"]_vars

\* C5: an interrupt() called in state sleeping, with no cancelled call waiting for its
\* cleanup, puts the interrupted payload where a task is blocked in syncSleep: the
\* interrupt is not lost.
C5_InterruptReachesSleep ==
  [][state = "sleeping" /\ ~MicrotaskPending /\ Interrupts
       => \E s \in Sessions :
            /\ tpc[s] = "sleeping"
            /\ [id |-> BlockedOn(s), payload |-> InterruptedPayload] \in chan']_vars

\* C6: an interrupt() called in state running with no interrupter installed, while
\* no task is blocked in a read or a sleep, stops the worker and creates a new one,
\* cancels every call in flight and leaves the client idle.
C6_TerminateAndRestart ==
  [][state = "running" /\ worker # 0 /\ ThreadFree /\ interrupt(FALSE)
       => /\ worker' = workersCreated + 1
          /\ \A s \in Sessions : ~Live(s)'
          /\ \A s \in InFlight : race'[s] = "rejected"
          /\ state' = "idle"]_vars

\* C7: an interrupt() called in state running with an interrupter installed calls
\* the interrupter once and does not return before the interrupter has completed; it
\* neither stops the worker nor rejects the cancellation promise, and it leaves the
\* state, the tasks and the channel alone.
C7_Interrupter ==
  /\ [](interruptAwaiting >= interrupterPending)
  /\ [][state = "running" /\ interrupt(TRUE)
          => /\ interrupterPending' = interrupterPending + 1
             /\ interruptAwaiting' = interruptAwaiting + 1
             /\ UNCHANGED <<ctl, sess, wrk, chn>>]_vars

\* An interrupt() waits for the interrupter it called; the call it interrupts is
\* still in flight on the first worker.
C7_Witness ==
  /\ interrupterPending = 1
  /\ interruptAwaiting = 1
  /\ state = "running"
  /\ worker = 1
  /\ InFlight = {1}
  /\ Live(1)

\* C8: an interrupt() on a client that is not idle takes exactly one of three ways.
\* In state awaitingMessage or sleeping it writes the interrupted payload and nothing
\* else, whether or not an interrupter is installed; in state running it calls the
\* interrupter if there is one, and only otherwise terminates the worker.
C8_OneTier ==
  [][\A hasInterrupter \in BOOLEAN :
       state # "idle" /\ interrupt(hasInterrupter)
         => IF state \in {"awaitingMessage", "sleeping"}
              THEN /\ [id |-> WriteId, payload |-> InterruptedPayload] \in chan'
                   /\ state' = "running"
                   /\ UNCHANGED <<intr, worker, workersCreated, race, wrk, _interruptRejector>>
            ELSE IF hasInterrupter
              THEN /\ interrupterPending' = interrupterPending + 1
                   /\ UNCHANGED <<chn, ctl, race, wrk>>
            ELSE /\ \A s \in Sessions : ~Live(s)'
                 /\ worker # 0 => worker' = workersCreated + 1
                 /\ UNCHANGED <<chn, intr>>]_vars

\* The interrupted payload has been written for a task blocked in a read, on the
\* first worker, and no interrupter has been called.
C8_Witness ==
  /\ \E s \in Sessions :
       /\ tpc[s] = "reading"
       /\ [id |-> BlockedOn(s), payload |-> InterruptedPayload] \in chan
  /\ state = "running"
  /\ worker = 1
  /\ workersCreated = 1
  /\ interrupterPending = 0
  /\ interruptAwaiting = 0

\* C9: interrupt() on an idle client changes nothing: it writes no payload, calls no
\* interrupter, neither stops nor replaces the worker, and the state stays idle.
C9_IdleInterrupt ==
  [][state = "idle" /\ Interrupts => UNCHANGED vars]_vars

\* The client is idle after a call that has returned, with its first worker, an
\* empty channel and no interrupter called: interrupt() leaves it as it is.
C9_Witness ==
  /\ state = "idle"
  /\ settled.type = "return"
  /\ worker = 1
  /\ workersCreated = 1
  /\ written = {}
  /\ interrupterPending = 0
  /\ ENABLED (Interrupts /\ UNCHANGED vars)

\* C10: after the user function of a session has caught an InterruptError the
\* session continues: once the client has handled the notification of the next
\* readMessage, either the payload for that read is in the channel or the client
\* awaits a message for exactly that read.
C10_SessionContinues ==
  \A s \in InFlight :
    HasCaught(s) /\ tpc[s] = "reading" /\ notif[s] = <<>>
      => \/ \E p \in chan : p.id = BlockedOn(s)
         \/ state = "awaitingMessage" /\ WriteId = BlockedOn(s)

\* C11: within a session the sequence number of the worker changes only when the
\* task enters a blocking readMessage or syncSleep, and then it grows by one: the
\* numbers of the blocking calls of a session increase strictly and no message id is
\* used by two of them.
C11_SeqIncreases ==
  [][\A s \in Sessions :
       Live(s) /\ Live(s)'
         => IF ~Blocked(s) /\ Blocked(s)'
              THEN messageIdSeq'[s] = messageIdSeq[s] + 1
              ELSE messageIdSeq'[s] = messageIdSeq[s]]_vars

\* A task is in its second blocking call, a read after a sleep that timed out, with
\* the second sequence number.
C11_Witness ==
  \E s \in Sessions :
    /\ tpc[s] = "reading"
    /\ messageIdSeq[s] = 2
    /\ nCalls = 2
    /\ Len(notif[s]) >= 2

\* A step of writeMessage().
Writes1 == writeMessage(nextMessage)

\* C12: writeMessage called while the client is idle fails: it changes nothing and
\* writes nothing to the channel.
C12_IdleWriteFails ==
  [][state = "idle" /\ Writes1 => UNCHANGED vars]_vars

\* The client is idle again after a call during which a message was written and
\* read: a writeMessage is refused here.
C12_Witness ==
  /\ state = "idle"
  /\ settled.s # 0
  /\ nMessages >= 1
  /\ chan = {}
  /\ nMessages < MaxMessage
  /\ ENABLED (Writes1 /\ UNCHANGED vars)

C15_UsageErrorNoEffect ==
  [][(\/ state # "idle" /\ call
      \/ (state = "idle" \/ _messageIdBase = 0) /\ Writes1
      \/ state # "awaitingMessage" /\ _awaitingMessageResolve.queued /\ Writes1)
       => UNCHANGED <<state, _messageIdBase, _messageIdSeq, _interruptRejector,
                      _awaitingMessageResolve, worker, workersCreated, race, chan,
                      written>>]_vars

\* A call is in flight and awaits a message with a write queued before: a second
\* call is refused here.
C15_Witness ==
  /\ state = "running"
  /\ InFlight = {1}
  /\ _awaitingMessageResolve.queued
  /\ tpc[1] = "reading"
  /\ nSessions < MaxSessions
  /\ ENABLED (call /\ UNCHANGED vars)

\* C13: a writeMessage called during a call while the state is running or sleeping
\* writes nothing and is queued.  It leaves the queue during the call only when the
\* client handles a "reading" notification, and its message is then written with the
\* id of the read that sent the notification; "sleeping" and "slept" leave it queued.
C13_QueuedUntilReading ==
  [][/\ _messageIdBase # 0 /\ state \in {"running", "sleeping"} /\ Writes1
          => Writes = {} /\ _awaitingMessageResolve' = Writer(nextMessage)
     /\ _awaitingMessageResolve.queued /\ ~_awaitingMessageResolve'.queued /\ state' # "idle"
          => \E s \in Sessions :
               /\ notif[s] # <<>>
               /\ Head(notif[s]) = "reading"
               /\ notif'[s] = Tail(notif[s])
               /\ tpc[s] = "reading"
               /\ Writes = {[id |-> BlockedOn(s),
                             payload |-> MessagePayload(_awaitingMessageResolve.message)]}
     /\ \A s \in Sessions :
          /\ notif[s] # <<>>
          /\ Head(notif[s]) \in {"sleeping", "slept"}
          /\ notif'[s] = Tail(notif[s])
          => Writes = {} /\ _awaitingMessageResolve' = _awaitingMessageResolve]_vars

\* C16: terminate() releases the proxy and stops the worker with all its tasks,
\* creates no new worker and rejects every call in flight, which then settles with
\* InterruptError and leaves the client idle; with no call in flight it rejects
\* nothing.
C16_Terminate ==
  [][/\ worker # 0 /\ userTerminate
          => /\ worker' = 0
             /\ workersCreated' = workersCreated
             /\ \A s \in Sessions : ~Live(s)'
             /\ \A s \in InFlight : race'[s] = "rejected"
             /\ InFlight = {} => race' = race
     /\ \A s \in Sessions :
          worker = 0 /\ race[s] = "rejected" /\ race'[s] = "settled"
            => /\ settled'.s = s /\ settled'.type = "InterruptError"
               /\ ~MicrotaskPending' => state' = "idle"]_vars

\* C19: every message the client writes, with no cancelled call waiting for its
\* cleanup, is written with the id a task is blocked on in readMessage at that
\* moment, and a task blocked in syncSleep never takes a message from the channel.
C19_MessageForBlockedRead ==
  [][/\ ~MicrotaskPending
          => \A w \in Writes :
               ~w.payload.interrupted
                 => \E s \in Sessions : tpc[s] = "reading" /\ BlockedOn(s) = w.id
     /\ \A s \in Sessions : \A p \in chan \ chan' :
          tpc[s] = "sleeping" /\ p.id = BlockedOn(s) => p.payload.interrupted]_vars

\* The client handles the oldest notification of session s, which is `status`.
Handles(s, status) ==
  /\ notif[s] # <<>>
  /\ Head(notif[s]) = status
  /\ notif'[s] = Tail(notif[s])

\* C17: a syncSleep whose timeout passes with no payload for it returns normally to
\* the task and sends "slept"; when the client has handled that notification during
\* the call its state is running, so that interrupt() does not write to the channel,
\* and handling it writes nothing and leaves the sequence number alone.
C17_SleepTimesOut ==
  [][\A s \in Sessions :
       /\ readMessageTimeout(s)
            => /\ tpc'[s] = "run"
               /\ tlog'[s] = tlog[s]
               /\ result'[s] = result[s]
               /\ notif'[s] = Append(notif[s], "slept")
       /\ runningThisTask[s] /\ Handles(s, "slept")
            => /\ state' = "running"
               /\ \A hasInterrupter \in BOOLEAN : interruptTier(state', hasInterrupter) # 1
               /\ Writes = {}
               /\ _messageIdSeq' = _messageIdSeq]_vars

\* A task has slept with nothing ever written to the channel and goes on; the client
\* has handled all its notifications and is in state running.
C17_Witness ==
  \E s \in Sessions :
    /\ InFlight = {s}
    /\ tpc[s] = "run"
    /\ messageIdSeq[s] = 1
    /\ _messageIdSeq = 1
    /\ notif[s] = <<>>
    /\ written = {}
    /\ state = "running"

\* C18: a readMessage or a syncSleep of positive duration in a task that was given
\* no channel throws NoChannelError: no notification is sent and the sequence number
\* does not advance.  A call whose user function does not catch the error settles
\* with NoChannelError and leaves the client idle.
C18_NoChannel ==
  [][/\ \A s \in Sessions, status \in {"reading", "sleeping"}, catches \in BOOLEAN :
          ~tchannel[s] /\ fullSyncMessageCallback(s, status, catches)
            => /\ notif' = notif
               /\ messageIdSeq'[s] = messageIdSeq[s]
               /\ ~Blocked(s)'
               /\ IF catches
                    THEN tlog'[s] = Append(tlog[s], Caught(NoChannelError))
                    ELSE result'[s] = NoChannelError /\ ~Live(s)'
     /\ \A s \in Sessions :
          result[s] = NoChannelError /\ race[s] = "pending" /\ race'[s] = "settled"
            => /\ settled' = [s |-> s, type |-> "NoChannelError", value |-> <<>>]
               /\ state' = "idle"]_vars

\* A call on a client without channel has settled with NoChannelError after exactly
\* one readMessage or syncSleep; no notification but "init" was ever sent.
C18_Witness ==
  /\ ~channel
  /\ settled.type = "NoChannelError"
  /\ state = "idle"
  /\ nCalls = 1
  /\ _messageIdSeq = 0

\* C20: a notification of a call that has settled changes neither the state nor the
\* sequence number of the client, releases no queued write and writes nothing, also
\* when another call has started.
C20_StaleNotification ==
  [][\A s \in Sessions :
       race[s] = "settled" /\ notif[s] # <<>> /\ notif'[s] = Tail(notif[s])
         => UNCHANGED <<state, _messageIdSeq, _awaitingMessageResolve, _messageIdBase,
                        chan, written>>]_vars

\* The "reading" notification of a call that has settled is still on its way while
\* the next call is in flight with a write queued, and the client can handle it.
C20_Witness ==
  \E s \in Sessions :
    /\ race[s] = "settled"
    /\ notif[s] # <<>>
    /\ Head(notif[s]) = "reading"
    /\ InFlight # {}
    /\ state = "running"
    /\ _awaitingMessageResolve.queued
    /\ ENABLED syncMessageCallback(s)

\* C21: every payload the client writes carries the correlation base of a call that
\* has not ended, and the payload a blocked task takes from the channel carries the
\* base of its own session.
C21_OwnSessionPayloads ==
  [][/\ \A w \in Writes : w.id[1] # 0 /\ runningThisTask[w.id[1]]
     /\ \A s \in Sessions :
          Blocked(s) /\ ~Blocked(s)'
            => \A p \in chan \ chan' : p.id[1] = s /\ p.id[2] = messageIdSeq[s]]_vars

C23_CleanupOwnSession ==
  [][\A s \in Sessions, u \in Sessions :
       /\ u # s
       /\ race[s] = "rejected" /\ race'[s] = "settled"
       /\ race[u] = "pending" /\ _messageIdBase = u
       => /\ state' = state /\ state' # "idle"
          /\ _messageIdBase' = u
          /\ _interruptRejector' = _interruptRejector
          /\ _awaitingMessageResolve' = _awaitingMessageResolve]_vars

\* The correlation ids the client has written a payload for.
WrittenIds == {p.id : p \in written}

\* C24: the client writes at most one payload for a correlation id: an interrupt()
\* that reaches a blocking call, a writeMessage that writes at once and the release of
\* a queued writeMessage each write for an id nothing was written for before.
C24_OnePayloadPerId ==
  [][/\ \A w \in Writes : w.id \notin WrittenIds
     /\ state \in {"awaitingMessage", "sleeping"} /\ Interrupts
          => WriteId \notin WrittenIds
     /\ state = "awaitingMessage" /\ ~noActiveCall /\ Writes1
          => WriteId \notin WrittenIds
     /\ \A s \in Sessions :
          /\ syncMessageCallback(s)
          /\ _awaitingMessageResolve.queued /\ ~_awaitingMessageResolve'.queued
          => makeMessageId(_messageIdBase, _messageIdSeq') \notin WrittenIds]_vars

\* C25: while the call of session s is in flight and its task is alive, the client's
\* sequence number is at most the task's, and the two are equal when the state is
\* awaitingMessage and when no notification of the task is on its way.
C25_SeqAgreement ==
  \A s \in Sessions :
    race[s] = "pending" /\ Live(s)
      => /\ _messageIdSeq <= messageIdSeq[s]
         /\ state = "awaitingMessage" \/ notif[s] = <<>>
              => _messageIdSeq = messageIdSeq[s]

\* C26: a queued writeMessage is settled before its slot is cleared: the slot of a
\* queued writer is emptied only by the step that writes its message, which is the
\* only step that resolves its promise (nothing ever rejects it).
C26_QueuedWriteSettles ==
  [][_awaitingMessageResolve.queued /\ ~_awaitingMessageResolve'.queued
       => [id |-> makeMessageId(_messageIdBase, _messageIdSeq'),
           payload |-> MessagePayload(_awaitingMessageResolve.message)] \in written']_vars

\* C27: a writeMessage queued in a session stays in that session: as long as it is
\* queued the correlation base does not change, the step that takes it out of the
\* queue writes nothing under another base, and a read returns only a payload written
\* under the base of its own session.
C27_QueuedWriteStaysInSession ==
  [][/\ _awaitingMessageResolve.queued
          => /\ _messageIdBase # 0
             /\ \/ /\ _awaitingMessageResolve' = _awaitingMessageResolve
                   /\ _messageIdBase' = _messageIdBase
                \/ /\ ~_awaitingMessageResolve'.queued
                   /\ \A w \in Writes : w.id[1] = _messageIdBase
     /\ \A s \in Sessions :
          tpc[s] = "reading" /\ tlog'[s] # tlog[s]
            => \A p \in chan \ chan' : p.id[1] = s]_vars

\* A write was queued and never written, its session is over, and the task of a later
\* session is blocked in readMessage with the client awaiting a message.
C27_Witness ==
  \E u \in Sessions :
    /\ race[u] = "pending" /\ _messageIdBase = u /\ tpc[u] = "reading"
    /\ \A s \in Sessions \ {u} : race[s] \in {"none", "settled"}
    /\ state = "awaitingMessage" /\ notif[u] = <<>>
    /\ nMessages > 0 /\ written = {} /\ ~_awaitingMessageResolve.queued

====
